---- MODULE Spec2Model ----
(***************************************************************************)
(* Model of atari-bundle (src/src/lib.rs): the bundle manifest record, its *)
(* two builders, the keyfile scalar codecs, the [Bundle] section codec and *)
(* the bundle.ini archive transport.                                       *)
(*                                                                         *)
(* Text is a sequence of one-character strings.  An Option<T> is a         *)
(* sequence of length 0 (None) or 1 (Some).  A manifest text is the        *)
(* sequence of key=value items of its [Bundle] section, in file order.     *)
(***************************************************************************)
EXTENDS Naturals, Sequences, FiniteSets

VARIABLES builder, given, config, buf, archive, result, last

vars == <<builder, given, config, buf, archive, result, last>>

----------------------------------------------------------------------------
(* Bounds of the model.                                                    *)

\* longest launcher tag list handed to the builders
MaxTags == 2
\* longest text handed to the scalar codecs
MaxStrLen == 4
\* most items in a manifest section read from outside
MaxItems == 3

----------------------------------------------------------------------------
(* Values.                                                                 *)

None == <<>>
Some(v) == <<v>>

BoundedSeq(S, n) == UNION {[1..k -> S] : k \in 0..n}

\* Result<T, E>
Ok(v) == [ok |-> TRUE, value |-> v]
Err(e) == [ok |-> FALSE, err |-> e]

BundleType == {"Game", "Application", "LauncherOnly"}

\* texts the callers pass for the free-form fields
Names == {<<"n">>}
Ids == {<<"i">>}
Texts == {<<"x">>}
OptTexts == {None} \cup {Some(t) : t \in Texts}
OptBools == {None} \cup {Some(b) : b \in BOOLEAN}
TagTexts == {<<>>, <<"a">>, <<";">>}
TagLists == BoundedSeq(TagTexts, MaxTags)

----------------------------------------------------------------------------
(* Builders.                                                               *)

NoBuilder == [kind |-> "none"]

BundleConfigBuilder_new(name, bundle_type) ==
    [kind |-> "base", name |-> name, bundle_type |-> bundle_type]

homebrew_id(self, id) ==
    [kind |-> "homebrew",
     name |-> self.name,
     bundle_type |-> self.bundle_type,
     exec |-> None,
     homebrew_id |-> id,
     launcher |-> None,
     prefer_xbox_mode |-> FALSE,
     version |-> None]

store_id(self, id) ==
    [kind |-> "store",
     name |-> self.name,
     bundle_type |-> self.bundle_type,
     exec |-> None,
     store_id |-> id,
     launcher |-> None,
     launcher_exec |-> None,
     launcher_tags |-> <<>>,
     background |-> FALSE,
     prefer_xbox_mode |-> FALSE,
     version |-> None,
     encrypted_image |-> None]

\* Option<bool>::unwrap_or_default
unwrap_or_default(ob) == IF ob = None THEN FALSE ELSE ob[1]

Homebrew_version(self, version) == [self EXCEPT !.version = Some(version)]
Homebrew_prefer_xbox_mode(self, b) == [self EXCEPT !.prefer_xbox_mode = b]
Homebrew_requires_launcher(self, launcher) == [self EXCEPT !.launcher = Some(launcher)]
Homebrew_exec(self, exec) == [self EXCEPT !.exec = Some(exec)]
Homebrew_set_version(self, version) == [self EXCEPT !.version = version]
Homebrew_set_prefer_xbox_mode(self, ob) ==
    [self EXCEPT !.prefer_xbox_mode = unwrap_or_default(ob)]
Homebrew_set_requires_launcher(self, launcher) == [self EXCEPT !.launcher = launcher]
Homebrew_set_exec(self, exec) == [self EXCEPT !.exec = exec]

Homebrew_build_BadIsolation(self) ==
    [bundle |->
        [name |-> self.name,
         bundle_type |-> self.bundle_type,
         store_id |-> None,
         homebrew_id |-> Some(self.homebrew_id),
         exec |-> self.exec,
         version |-> self.version,
         background |-> self.prefer_xbox_mode,
         prefer_xbox_mode |-> self.prefer_xbox_mode,
         launcher |-> self.launcher,
         launcher_tags |-> <<>>,
         launcher_exec |-> self.launcher,
         encrypted_image |-> None]]

Homebrew_build(self) ==
    [bundle |->
        [name |-> self.name,
         bundle_type |-> self.bundle_type,
         store_id |-> None,
         homebrew_id |-> Some(self.homebrew_id),
         exec |-> self.exec,
         version |-> self.version,
         background |-> FALSE,
         prefer_xbox_mode |-> self.prefer_xbox_mode,
         launcher |-> self.launcher,
         launcher_tags |-> <<>>,
         launcher_exec |-> None,
         encrypted_image |-> None]]

Store_version(self, version) == [self EXCEPT !.version = Some(version)]
Store_background(self, b) == [self EXCEPT !.background = b]
Store_prefer_xbox_mode(self, b) == [self EXCEPT !.prefer_xbox_mode = b]
Store_requires_launcher(self, launcher) == [self EXCEPT !.launcher = Some(launcher)]
Store_provides_launcher(self, exec, tags) ==
    [self EXCEPT !.launcher_exec = Some(exec), !.launcher_tags = tags]
Store_exec(self, exec) == [self EXCEPT !.exec = Some(exec)]
Store_encrypted_image(self, image) == [self EXCEPT !.encrypted_image = Some(image)]
Store_set_version(self, version) == [self EXCEPT !.version = version]
Store_set_background(self, ob) == [self EXCEPT !.background = unwrap_or_default(ob)]
Store_set_prefer_xbox_mode(self, ob) ==
    [self EXCEPT !.prefer_xbox_mode = unwrap_or_default(ob)]
Store_set_requires_launcher(self, launcher) == [self EXCEPT !.launcher = launcher]

\* a set_provides_launcher that applies the tags even without an executable
Store_set_provides_launcher_TagsAlways(self, exec, tags) ==
    IF exec # None
       THEN [self EXCEPT !.launcher_exec = Some(exec[1]), !.launcher_tags = tags]
       ELSE [self EXCEPT !.launcher_tags = tags]

Store_set_provides_launcher(self, exec, tags) ==
    IF exec # None
       THEN [self EXCEPT !.launcher_exec = Some(exec[1]), !.launcher_tags = tags]
       ELSE self

Store_set_exec(self, exec) == [self EXCEPT !.exec = exec]

\* a build that files the identifier under the other identity field
Store_build_SwappedId(self) ==
    [bundle |->
        [name |-> self.name,
         bundle_type |-> self.bundle_type,
         store_id |-> None,
         homebrew_id |-> Some(self.store_id),
         exec |-> self.exec,
         version |-> self.version,
         background |-> self.background,
         prefer_xbox_mode |-> self.prefer_xbox_mode,
         launcher |-> self.launcher,
         launcher_tags |-> self.launcher_tags,
         launcher_exec |-> self.launcher_exec,
         encrypted_image |-> self.encrypted_image]]

Store_build(self) ==
    [bundle |->
        [name |-> self.name,
         bundle_type |-> self.bundle_type,
         store_id |-> Some(self.store_id),
         homebrew_id |-> None,
         exec |-> self.exec,
         version |-> self.version,
         background |-> self.background,
         prefer_xbox_mode |-> self.prefer_xbox_mode,
         launcher |-> self.launcher,
         launcher_tags |-> self.launcher_tags,
         launcher_exec |-> self.launcher_exec,
         encrypted_image |-> self.encrypted_image]]

----------------------------------------------------------------------------
(* Scalar codecs.                                                          *)

T_true == <<"t", "r", "u", "e">>
T_false == <<"f", "a", "l", "s", "e">>

\* a skip test that never skips
is_false_Never(b) == FALSE

is_false(b) == ~b

ser_keyfile_bool(value) == IF value THEN T_true ELSE T_false

\* a decoder that also takes the capitalised spellings
de_keyfile_bool_AnyCase(s) ==
    IF s = T_true \/ s = <<"T", "r", "u", "e">> THEN Ok(TRUE)
    ELSE IF s = T_false \/ s = <<"F", "a", "l", "s", "e">> THEN Ok(FALSE)
    ELSE Err([kind |-> "not a valid Boolean value"])

de_keyfile_bool(s) ==
    IF s = T_true THEN Ok(TRUE)
    ELSE IF s = T_false THEN Ok(FALSE)
    ELSE Err([kind |-> "not a valid Boolean value"])

\* Itertools::intersperse(.., ";").collect::<String>()
RECURSIVE intersperse(_)
intersperse(value) ==
    IF Len(value) = 0 THEN <<>>
    ELSE IF Len(value) = 1 THEN value[1]
    ELSE value[1] \o <<";">> \o intersperse(Tail(value))

ser_keyfile_list(value) == intersperse(value)

\* str::split(';'): one more segment than there are delimiters
RECURSIVE split(_)
split(s) ==
    IF \A i \in 1..Len(s) : s[i] # ";" THEN <<s>>
    ELSE LET i == CHOOSE k \in 1..Len(s) :
                      s[k] = ";" /\ \A j \in 1..(k - 1) : s[j] # ";"
         IN  <<SubSeq(s, 1, i - 1)>> \o split(SubSeq(s, i + 1, Len(s)))

\* a decoder that keeps the empty segment after a trailing delimiter
de_keyfile_list_NoPop(s) == Ok(split(s))

de_keyfile_list(s) ==
    LET v == split(s)
        popped == IF Len(v) > 0 /\ Len(v[Len(v)]) = 0
                     THEN SubSeq(v, 1, Len(v) - 1)
                     ELSE v
    IN  Ok(popped)

\* strum Display / EnumString of BundleType
BundleType_to_string(t) ==
    CASE t = "Game" -> <<"G", "a", "m", "e">>
      [] t = "Application" -> <<"A", "p", "p", "l", "i", "c", "a", "t", "i", "o", "n">>
      [] t = "LauncherOnly" -> <<"L", "a", "u", "n", "c", "h", "e", "r", "O", "n", "l", "y">>

BundleType_from_str(s) ==
    IF \E t \in BundleType : BundleType_to_string(t) = s
       THEN Ok(CHOOSE t \in BundleType : BundleType_to_string(t) = s)
       ELSE Err([kind |-> "Matching variant not found"])

----------------------------------------------------------------------------
(* The [Bundle] section codec.                                             *)

\* the keys of struct Bundle, in declaration order
FieldKeys ==
    <<"Name", "Type", "StoreID", "HomebrewID", "Exec", "EncryptedImage",
      "Version", "Background", "PreferXBoxMode", "Launcher", "LauncherTags",
      "LauncherExec">>
KnownKeys == {FieldKeys[i] : i \in 1..Len(FieldKeys)}
BoolKeys == {"Background", "PreferXBoxMode"}

Item(k, v) == [key |-> k, value |-> v]
OptItem(k, o) == IF o = None THEN <<>> ELSE <<Item(k, o[1])>>
BoolItem(k, b) == IF is_false(b) THEN <<>> ELSE <<Item(k, ser_keyfile_bool(b))>>
ListItem(k, l) == IF Len(l) = 0 THEN <<>> ELSE <<Item(k, ser_keyfile_list(l))>>

\* derive(Serialize) for Bundle
Bundle_serialize(b) ==
    <<Item("Name", b.name), Item("Type", BundleType_to_string(b.bundle_type))>>
    \o OptItem("StoreID", b.store_id)
    \o OptItem("HomebrewID", b.homebrew_id)
    \o OptItem("Exec", b.exec)
    \o OptItem("EncryptedImage", b.encrypted_image)
    \o OptItem("Version", b.version)
    \o BoolItem("Background", b.background)
    \o BoolItem("PreferXBoxMode", b.prefer_xbox_mode)
    \o OptItem("Launcher", b.launcher)
    \o ListItem("LauncherTags", b.launcher_tags)
    \o OptItem("LauncherExec", b.launcher_exec)

\* the value of one known key, by the field's deserializer
de_field(k, v) ==
    CASE k = "Type" -> BundleType_from_str(v)
      [] k \in BoolKeys -> de_keyfile_bool(v)
      [] k = "LauncherTags" -> de_keyfile_list(v)
      [] OTHER -> Ok(v)

DeErr(kind, key) == Err([error |-> "De", kind |-> kind, key |-> key])

\* after the last item: required fields, then defaults
Bundle_finish(acc) ==
    IF Len(acc["Name"]) = 0 THEN DeErr("missing field", "Name")
    ELSE IF Len(acc["Type"]) = 0 THEN DeErr("missing field", "Type")
    ELSE Ok([bundle |->
        [name |-> acc["Name"][1],
         bundle_type |-> acc["Type"][1],
         store_id |-> acc["StoreID"],
         homebrew_id |-> acc["HomebrewID"],
         exec |-> acc["Exec"],
         encrypted_image |-> acc["EncryptedImage"],
         version |-> acc["Version"],
         background |->
            IF Len(acc["Background"]) = 0 THEN FALSE ELSE acc["Background"][1],
         prefer_xbox_mode |->
            IF Len(acc["PreferXBoxMode"]) = 0 THEN FALSE ELSE acc["PreferXBoxMode"][1],
         launcher |-> acc["Launcher"],
         launcher_tags |->
            IF Len(acc["LauncherTags"]) = 0 THEN <<>> ELSE acc["LauncherTags"][1],
         launcher_exec |-> acc["LauncherExec"]]])

\* a visitor without deny_unknown_fields: keys it does not know are skipped
RECURSIVE Bundle_visit_map_AllowUnknown(_, _, _)
Bundle_visit_map_AllowUnknown(items, i, acc) ==
    IF i > Len(items) THEN Bundle_finish(acc)
    ELSE LET k == items[i].key
             v == items[i].value
         IN  IF k \notin KnownKeys THEN Bundle_visit_map_AllowUnknown(items, i + 1, acc)
             ELSE IF Len(acc[k]) > 0 THEN DeErr("duplicate field", k)
             ELSE LET r == de_field(k, v)
                  IN  IF ~r.ok THEN DeErr(r.err.kind, k)
                      ELSE Bundle_visit_map_AllowUnknown(items, i + 1,
                                                         [acc EXCEPT ![k] = Some(r.value)])

\* derive(Deserialize) for Bundle with deny_unknown_fields: the items in file order
RECURSIVE Bundle_visit_map(_, _, _)
Bundle_visit_map(items, i, acc) ==
    IF i > Len(items) THEN Bundle_finish(acc)
    ELSE LET k == items[i].key
             v == items[i].value
         IN  IF k \notin KnownKeys THEN DeErr("unknown field", k)
             ELSE IF Len(acc[k]) > 0 THEN DeErr("duplicate field", k)
             ELSE LET r == de_field(k, v)
                  IN  IF ~r.ok THEN DeErr(r.err.kind, k)
                      ELSE Bundle_visit_map(items, i + 1, [acc EXCEPT ![k] = Some(r.value)])

Bundle_deserialize(items) == Bundle_visit_map(items, 1, [k \in KnownKeys |-> None])

to_write(cfg) == Bundle_serialize(cfg.bundle)

from_read(text) == Bundle_deserialize(text)

----------------------------------------------------------------------------
(* Archive transport: the container is the sequence of its entries.        *)

ManifestEntry == "bundle.ini"
PayloadEntry == "bundle.img"

HasEntry(zip, name) == \E i \in 1..Len(zip) : zip[i].name = name
by_name(zip, name) ==
    IF HasEntry(zip, name)
       THEN Ok(zip[CHOOSE i \in 1..Len(zip) : zip[i].name = name].data)
       ELSE Err([error |-> "Zip", kind |-> "FileNotFound", key |-> name])

to_archive(cfg, zip) == Append(zip, [name |-> ManifestEntry, data |-> to_write(cfg)])

from_archive(zip) ==
    LET inifile == by_name(zip, ManifestEntry)
    IN  IF inifile.ok THEN from_read(inifile.value) ELSE inifile

----------------------------------------------------------------------------
(* The caller's program: build a record, write it, read it back.           *)

Called(op) == [op |-> op]

\* given: the name, type and identifier the caller handed to the constructors
Init ==
    /\ builder = NoBuilder
    /\ given = [name |-> None, bundle_type |-> None, id |-> None]
    /\ config = None
    /\ buf = None
    /\ archive = <<>>
    /\ result = None
    /\ last = Called("init")

\* BundleConfig::builder / BundleConfigBuilder::new
Call_builder ==
    /\ builder.kind = "none"
    /\ config = None
    /\ \E name \in Names, t \in BundleType :
          /\ builder' = BundleConfigBuilder_new(name, t)
          /\ given' = [given EXCEPT !.name = Some(name), !.bundle_type = Some(t)]
    /\ last' = Called("builder")
    /\ UNCHANGED <<config, buf, archive, result>>

Call_homebrew_id ==
    /\ builder.kind = "base"
    /\ \E id \in Ids :
          /\ builder' = homebrew_id(builder, id)
          /\ given' = [given EXCEPT !.id = Some(id)]
    /\ last' = Called("homebrew_id")
    /\ UNCHANGED <<config, buf, archive, result>>

Call_store_id ==
    /\ builder.kind = "base"
    /\ \E id \in Ids :
          /\ builder' = store_id(builder, id)
          /\ given' = [given EXCEPT !.id = Some(id)]
    /\ last' = Called("store_id")
    /\ UNCHANGED <<config, buf, archive, result>>

Call_Homebrew_version ==
    /\ builder.kind = "homebrew"
    /\ \E v \in Texts : builder' = Homebrew_version(builder, v)
    /\ last' = Called("Homebrew::version")
    /\ UNCHANGED <<given, config, buf, archive, result>>

Call_Homebrew_prefer_xbox_mode ==
    /\ builder.kind = "homebrew"
    /\ \E b \in BOOLEAN : builder' = Homebrew_prefer_xbox_mode(builder, b)
    /\ last' = Called("Homebrew::prefer_xbox_mode")
    /\ UNCHANGED <<given, config, buf, archive, result>>

Call_Homebrew_requires_launcher ==
    /\ builder.kind = "homebrew"
    /\ \E l \in Texts : builder' = Homebrew_requires_launcher(builder, l)
    /\ last' = Called("Homebrew::requires_launcher")
    /\ UNCHANGED <<given, config, buf, archive, result>>

Call_Homebrew_exec ==
    /\ builder.kind = "homebrew"
    /\ \E e \in Texts : builder' = Homebrew_exec(builder, e)
    /\ last' = Called("Homebrew::exec")
    /\ UNCHANGED <<given, config, buf, archive, result>>

Call_Homebrew_set_version ==
    /\ builder.kind = "homebrew"
    /\ \E v \in OptTexts : builder' = Homebrew_set_version(builder, v)
    /\ last' = Called("Homebrew::set_version")
    /\ UNCHANGED <<given, config, buf, archive, result>>

Call_Homebrew_set_prefer_xbox_mode ==
    /\ builder.kind = "homebrew"
    /\ \E ob \in OptBools : builder' = Homebrew_set_prefer_xbox_mode(builder, ob)
    /\ last' = Called("Homebrew::set_prefer_xbox_mode")
    /\ UNCHANGED <<given, config, buf, archive, result>>

Call_Homebrew_set_requires_launcher ==
    /\ builder.kind = "homebrew"
    /\ \E l \in OptTexts : builder' = Homebrew_set_requires_launcher(builder, l)
    /\ last' = Called("Homebrew::set_requires_launcher")
    /\ UNCHANGED <<given, config, buf, archive, result>>

Call_Homebrew_set_exec ==
    /\ builder.kind = "homebrew"
    /\ \E e \in OptTexts : builder' = Homebrew_set_exec(builder, e)
    /\ last' = Called("Homebrew::set_exec")
    /\ UNCHANGED <<given, config, buf, archive, result>>

\* build consumes the builder
Call_Homebrew_build ==
    /\ builder.kind = "homebrew"
    /\ config' = Some(Homebrew_build(builder))
    /\ builder' = [kind |-> "built", by |-> "homebrew"]
    /\ last' = Called("Homebrew::build")
    /\ UNCHANGED <<given, buf, archive, result>>

Call_Store_version ==
    /\ builder.kind = "store"
    /\ \E v \in Texts : builder' = Store_version(builder, v)
    /\ last' = Called("Store::version")
    /\ UNCHANGED <<given, config, buf, archive, result>>

Call_Store_background ==
    /\ builder.kind = "store"
    /\ \E b \in BOOLEAN : builder' = Store_background(builder, b)
    /\ last' = Called("Store::background")
    /\ UNCHANGED <<given, config, buf, archive, result>>

Call_Store_prefer_xbox_mode ==
    /\ builder.kind = "store"
    /\ \E b \in BOOLEAN : builder' = Store_prefer_xbox_mode(builder, b)
    /\ last' = Called("Store::prefer_xbox_mode")
    /\ UNCHANGED <<given, config, buf, archive, result>>

Call_Store_requires_launcher ==
    /\ builder.kind = "store"
    /\ \E l \in Texts : builder' = Store_requires_launcher(builder, l)
    /\ last' = Called("Store::requires_launcher")
    /\ UNCHANGED <<given, config, buf, archive, result>>

Call_Store_provides_launcher ==
    /\ builder.kind = "store"
    /\ \E e \in Texts, tags \in TagLists :
          builder' = Store_provides_launcher(builder, e, tags)
    /\ last' = Called("Store::provides_launcher")
    /\ UNCHANGED <<given, config, buf, archive, result>>

Call_Store_exec ==
    /\ builder.kind = "store"
    /\ \E e \in Texts : builder' = Store_exec(builder, e)
    /\ last' = Called("Store::exec")
    /\ UNCHANGED <<given, config, buf, archive, result>>

Call_Store_encrypted_image ==
    /\ builder.kind = "store"
    /\ \E img \in Texts : builder' = Store_encrypted_image(builder, img)
    /\ last' = Called("Store::encrypted_image")
    /\ UNCHANGED <<given, config, buf, archive, result>>

Call_Store_set_version ==
    /\ builder.kind = "store"
    /\ \E v \in OptTexts : builder' = Store_set_version(builder, v)
    /\ last' = Called("Store::set_version")
    /\ UNCHANGED <<given, config, buf, archive, result>>

Call_Store_set_background ==
    /\ builder.kind = "store"
    /\ \E ob \in OptBools : builder' = Store_set_background(builder, ob)
    /\ last' = Called("Store::set_background")
    /\ UNCHANGED <<given, config, buf, archive, result>>

Call_Store_set_prefer_xbox_mode ==
    /\ builder.kind = "store"
    /\ \E ob \in OptBools : builder' = Store_set_prefer_xbox_mode(builder, ob)
    /\ last' = Called("Store::set_prefer_xbox_mode")
    /\ UNCHANGED <<given, config, buf, archive, result>>

Call_Store_set_requires_launcher ==
    /\ builder.kind = "store"
    /\ \E l \in OptTexts : builder' = Store_set_requires_launcher(builder, l)
    /\ last' = Called("Store::set_requires_launcher")
    /\ UNCHANGED <<given, config, buf, archive, result>>

\* the executable given and the number of tags given are kept with the call
Call_Store_set_provides_launcher ==
    /\ builder.kind = "store"
    /\ \E e \in OptTexts, tags \in TagLists :
          /\ builder' = Store_set_provides_launcher(builder, e, tags)
          /\ last' = [op |-> "Store::set_provides_launcher",
                      exec |-> e, ntags |-> Len(tags)]
    /\ UNCHANGED <<given, config, buf, archive, result>>

Call_Store_set_exec ==
    /\ builder.kind = "store"
    /\ \E e \in OptTexts : builder' = Store_set_exec(builder, e)
    /\ last' = Called("Store::set_exec")
    /\ UNCHANGED <<given, config, buf, archive, result>>

Call_Store_build ==
    /\ builder.kind = "store"
    /\ config' = Some(Store_build(builder))
    /\ builder' = [kind |-> "built", by |-> "store"]
    /\ last' = Called("Store::build")
    /\ UNCHANGED <<given, buf, archive, result>>

\* BundleConfig::to_write into an empty buffer; the caller writes the record
\* either to a buffer or to a container
Call_to_write ==
    /\ config # None
    /\ buf = None
    /\ archive = <<>>
    /\ result = None
    /\ buf' = Some(to_write(config[1]))
    /\ last' = Called("to_write")
    /\ UNCHANGED <<builder, given, config, archive, result>>

\* BundleConfig::from_read of the buffer
Call_from_read ==
    /\ buf # None
    /\ result' = Some(from_read(buf[1]))
    /\ last' = Called("from_read")
    /\ UNCHANGED <<builder, given, config, buf, archive>>

\* the caller stores a payload entry in the container
Call_start_payload ==
    /\ ~HasEntry(archive, PayloadEntry)
    /\ ~HasEntry(archive, ManifestEntry)
    /\ config # None
    /\ buf = None
    /\ archive' = Append(archive, [name |-> PayloadEntry, data |-> <<>>])
    /\ last' = Called("start_payload")
    /\ UNCHANGED <<builder, given, config, buf, result>>

\* BundleConfig::to_archive; the manifest is written once
Call_to_archive ==
    /\ config # None
    /\ buf = None
    /\ ~HasEntry(archive, ManifestEntry)
    /\ archive' = to_archive(config[1], archive)
    /\ last' = Called("to_archive")
    /\ UNCHANGED <<builder, given, config, buf, result>>

\* BundleConfig::from_archive of the finished container
Call_from_archive ==
    /\ config # None
    /\ buf = None
    /\ result' = Some(from_archive(archive))
    /\ last' = Called("from_archive")
    /\ UNCHANGED <<builder, given, config, buf, archive>>

Next ==
    \/ Call_builder
    \/ Call_homebrew_id
    \/ Call_store_id
    \/ Call_Homebrew_version
    \/ Call_Homebrew_prefer_xbox_mode
    \/ Call_Homebrew_requires_launcher
    \/ Call_Homebrew_exec
    \/ Call_Homebrew_set_version
    \/ Call_Homebrew_set_prefer_xbox_mode
    \/ Call_Homebrew_set_requires_launcher
    \/ Call_Homebrew_set_exec
    \/ Call_Homebrew_build
    \/ Call_Store_version
    \/ Call_Store_background
    \/ Call_Store_prefer_xbox_mode
    \/ Call_Store_requires_launcher
    \/ Call_Store_provides_launcher
    \/ Call_Store_exec
    \/ Call_Store_encrypted_image
    \/ Call_Store_set_version
    \/ Call_Store_set_background
    \/ Call_Store_set_prefer_xbox_mode
    \/ Call_Store_set_requires_launcher
    \/ Call_Store_set_provides_launcher
    \/ Call_Store_set_exec
    \/ Call_Store_build
    \/ Call_to_write
    \/ Call_from_read
    \/ Call_start_payload
    \/ Call_to_archive
    \/ Call_from_archive

Spec == Init /\ [][Next]_vars

----------------------------------------------------------------------------
(* Reading manifests that come from outside.                               *)

Game == BundleType_to_string("Game")

\* the values tried under each key of a manifest read from outside
PoolValues(k) ==
    CASE k = "Name" -> {<<"n">>}
      [] k = "Type" -> {Game, BundleType_to_string("LauncherOnly"), <<"g", "a", "m", "e">>}
      [] k = "Background" -> {T_true, <<"T", "r", "u", "e">>}
      [] k = "PreferXBoxMode" -> {T_false, <<>>}
      [] k = "LauncherTags" -> {<<"a", ";", "b">>, <<";">>}
      [] OTHER -> {<<"x">>}

UnknownKey == "Icon"
ItemPool ==
    UNION {{Item(k, v) : v \in PoolValues(k)} : k \in KnownKeys \cup {UnknownKey}}

\* the texts handed to the scalar codecs
CodecTexts ==
    BoundedSeq({"A", "B", ";"}, MaxStrLen)
        \cup {T_true, T_false, <<"T", "r", "u", "e">>, <<"F", "A", "L", "S", "E">>,
              <<"1">>, <<"t", "r", "u">>, <<"t", "r", "u", "e", "e">>}

ProbeHead == <<Item("Name", <<"n">>), Item("Type", Game)>>
ProbeDocs ==
    {ProbeHead \o <<Item(k, s)>> :
        k \in {"LauncherTags", "Background", "PreferXBoxMode"}, s \in CodecTexts}
        \cup {ProbeHead}

Docs == BoundedSeq(ItemPool, MaxItems) \cup ProbeDocs

InitDecode ==
    /\ builder = NoBuilder
    /\ given = [name |-> None, bundle_type |-> None, id |-> None]
    /\ config = None
    /\ buf \in {Some(d) : d \in Docs}
    /\ archive = <<>>
    /\ result = None
    /\ last = Called("init")

\* the manifest is stored as the bundle.ini entry of a container
Call_put_manifest ==
    /\ config = None
    /\ buf # None
    /\ result = None
    /\ ~HasEntry(archive, ManifestEntry)
    /\ archive' = Append(archive, [name |-> ManifestEntry, data |-> buf[1]])
    /\ last' = Called("put_manifest")
    /\ UNCHANGED <<builder, given, config, buf, result>>

\* BundleConfig::from_archive of that container
Call_from_archive_outside ==
    /\ config = None
    /\ HasEntry(archive, ManifestEntry)
    /\ result' = Some(from_archive(archive))
    /\ last' = Called("from_archive")
    /\ UNCHANGED <<builder, given, config, buf, archive>>

NextDecode ==
    \/ Call_from_read
    \/ Call_put_manifest
    \/ Call_from_archive_outside

SpecDecode == InitDecode /\ [][NextDecode]_vars

----------------------------------------------------------------------------
(* Properties.                                                             *)

SPL == "Store::set_provides_launcher"
BoolTexts == {T_true, T_false}
KeysOf(items) == {items[i].key : i \in 1..Len(items)}
HasKey(items, k) == k \in KeysOf(items)

\* the value of item it is one its key's field accepts
ValidValue(it) ==
    CASE it.key = "Type" -> \E t \in BundleType : BundleType_to_string(t) = it.value
      [] it.key \in BoolKeys -> it.value \in BoolTexts
      [] OTHER -> TRUE

\* item i is a known key, not seen before it, with a valid value
CleanItem(items, i) ==
    /\ items[i].key \in KnownKeys
    /\ \A j \in 1..(i - 1) : items[j].key # items[i].key
    /\ ValidValue(items[i])
PrefixClean(items, i) == \A j \in 1..(i - 1) : CleanItem(items, j)
AllClean(items) == \A j \in 1..Len(items) : CleanItem(items, j)

\* the field of a decoded record that key k is read into
FieldOf(b, k) ==
    CASE k = "Name" -> b.name
      [] k = "Type" -> b.bundle_type
      [] k = "StoreID" -> b.store_id
      [] k = "HomebrewID" -> b.homebrew_id
      [] k = "Exec" -> b.exec
      [] k = "EncryptedImage" -> b.encrypted_image
      [] k = "Version" -> b.version
      [] k = "Background" -> b.background
      [] k = "PreferXBoxMode" -> b.prefer_xbox_mode
      [] k = "Launcher" -> b.launcher
      [] k = "LauncherTags" -> b.launcher_tags
      [] k = "LauncherExec" -> b.launcher_exec

\* the default / empty state of the field of key k
DefaultOf(k) ==
    CASE k \in BoolKeys -> FALSE
      [] k = "LauncherTags" -> <<>>
      [] OTHER -> None

CountSemi(s) == Cardinality({i \in 1..Len(s) : s[i] = ";"})

\* d is the list of the segments of s between its delimiters, without the
\* segment after the last delimiter when that segment is empty
IsSegmentsOf(d, s) ==
    /\ \A j \in 1..Len(d) : \A i \in 1..Len(d[j]) : d[j][i] # ";"
    /\ IF Len(s) = 0
          THEN Len(d) = 0
          ELSE IF s[Len(s)] = ";"
                  THEN /\ Len(d) = CountSemi(s)
                       /\ intersperse(d) = SubSeq(s, 1, Len(s) - 1)
                  ELSE /\ Len(d) = CountSemi(s) + 1
                       /\ intersperse(d) = s

\* C1: a record built by either builder, written with to_write and read back
\* with from_read, is read back without error and equal in every field.
C1_RoundTrip ==
    (last.op = "from_read" /\ config # None) => result = Some(Ok(config[1]))

\* C2 (as stated): set_provides_launcher(None, tags) leaves launcher_exec and
\* launcher_tags unset, and the record built right afterwards has
\* launcher_exec = None and launcher_tags = [].
C2_UnsetAfterNoExec ==
    [][/\ (last'.op = SPL /\ last'.exec = None)
            => (builder'.launcher_exec = None /\ builder'.launcher_tags = <<>>)
       /\ (last.op = SPL /\ last.exec = None /\ last'.op = "Store::build")
            => (/\ config'[1].bundle.launcher_exec = None
                /\ config'[1].bundle.launcher_tags = <<>>)]_vars

\* C2 (amended): set_provides_launcher(None, tags) changes no field of the
\* builder, and the record built right afterwards carries the launcher_exec and
\* launcher_tags the builder had before the call.
C2_NoExecIsNoOp ==
    [][/\ (last'.op = SPL /\ last'.exec = None) => builder' = builder
       /\ (last.op = SPL /\ last.exec = None /\ last'.op = "Store::build")
            => (/\ config'[1].bundle.launcher_exec = builder.launcher_exec
                /\ config'[1].bundle.launcher_tags = builder.launcher_tags)]_vars

C2_Witness ==
    /\ last.op = SPL
    /\ last.exec = None
    /\ last.ntags > 0
    /\ builder.launcher_exec # None
    /\ builder.launcher_tags # <<>>

\* C3: every record built by the homebrew builder has store_id = None,
\* background = false, launcher_exec = None, launcher_tags = [] and
\* encrypted_image = None.
C3_HomebrewIsolation ==
    (config # None /\ builder.kind = "built" /\ builder.by = "homebrew")
        => (/\ config[1].bundle.store_id = None
            /\ config[1].bundle.background = FALSE
            /\ config[1].bundle.launcher_exec = None
            /\ config[1].bundle.launcher_tags = <<>>
            /\ config[1].bundle.encrypted_image = None)

C3_Witness ==
    /\ config # None
    /\ builder.kind = "built"
    /\ builder.by = "homebrew"
    /\ config[1].bundle.prefer_xbox_mode
    /\ config[1].bundle.launcher # None
    /\ config[1].bundle.exec # None
    /\ config[1].bundle.version # None

\* C4: a built record has exactly one of store_id and homebrew_id set, to the
\* identifier given to the constructor of its builder, and no setter changes
\* the identifier, the name or the type given at construction.
C4_OneIdentity ==
    /\ builder.kind = "store"
        => (/\ Some(builder.store_id) = given.id
            /\ Some(builder.name) = given.name
            /\ Some(builder.bundle_type) = given.bundle_type)
    /\ builder.kind = "homebrew"
        => (/\ Some(builder.homebrew_id) = given.id
            /\ Some(builder.name) = given.name
            /\ Some(builder.bundle_type) = given.bundle_type)
    /\ (config # None /\ builder.kind = "built")
        => (/\ Some(config[1].bundle.name) = given.name
            /\ Some(config[1].bundle.bundle_type) = given.bundle_type
            /\ builder.by = "store"
                => (/\ config[1].bundle.store_id = given.id
                    /\ config[1].bundle.homebrew_id = None)
            /\ builder.by = "homebrew"
                => (/\ config[1].bundle.homebrew_id = given.id
                    /\ config[1].bundle.store_id = None))

C4_Witness ==
    /\ config # None
    /\ builder.kind = "built"
    /\ builder.by = "store"
    /\ config[1].bundle.store_id # None
    /\ config[1].bundle.version # None
    /\ config[1].bundle.exec # None
    /\ config[1].bundle.launcher_exec # None

\* C5: the decoded launcher tag list is the list of the segments of the text
\* between its ';' delimiters, the last segment dropped exactly when it is
\* empty; a manifest without the LauncherTags key decodes to the empty list.
C5_ListDecode ==
    /\ de_keyfile_list(<<"A", ";", "B", ";">>) = Ok(<< <<"A">>, <<"B">> >>)
    /\ de_keyfile_list(<<"A", ";", "B">>) = Ok(<< <<"A">>, <<"B">> >>)
    /\ de_keyfile_list(<<"A", ";", ";", "B">>) = Ok(<< <<"A">>, <<>>, <<"B">> >>)
    /\ de_keyfile_list(<<>>) = Ok(<<>>)
    /\ result # None
        => LET doc == buf[1]
               r == result[1]
           IN  /\ r.ok
                    => /\ \A i \in 1..Len(doc) :
                            doc[i].key = "LauncherTags"
                                => IsSegmentsOf(r.value.bundle.launcher_tags, doc[i].value)
                       /\ ~HasKey(doc, "LauncherTags")
                            => r.value.bundle.launcher_tags = <<>>
               /\ (~r.ok /\ r.err.key = "LauncherTags") => r.err.kind = "duplicate field"
               /\ (AllClean(doc) /\ HasKey(doc, "Name") /\ HasKey(doc, "Type")) => r.ok

C5_Witness ==
    /\ result # None
    /\ result[1].ok
    /\ \E i \in 1..Len(buf[1]) :
          /\ buf[1][i].key = "LauncherTags"
          /\ buf[1][i].value = <<"A", ";", ";">>
    /\ result[1].value.bundle.launcher_tags = << <<"A">>, <<>> >>

\* C6: a boolean field decodes "true" to true and "false" to false, any other
\* text fails the decode with the invalid-boolean error and yields no record;
\* a boolean encodes to "true" or "false", which decodes back to it.
C6_BoolCodec ==
    /\ \A b \in BOOLEAN :
          /\ ser_keyfile_bool(b) = (IF b THEN T_true ELSE T_false)
          /\ de_keyfile_bool(ser_keyfile_bool(b)) = Ok(b)
    /\ result # None
        => LET doc == buf[1]
               r == result[1]
           IN  \A i \in 1..Len(doc) :
                  doc[i].key \in BoolKeys
                      => /\ r.ok => /\ doc[i].value \in BoolTexts
                                    /\ FieldOf(r.value.bundle, doc[i].key)
                                          = (doc[i].value = T_true)
                         /\ doc[i].value \notin BoolTexts => ~r.ok
                         /\ (doc[i].value \notin BoolTexts /\ PrefixClean(doc, i)
                                /\ \A j \in 1..(i - 1) : doc[j].key # doc[i].key)
                              => (/\ ~r.ok
                                  /\ r.err.kind = "not a valid Boolean value"
                                  /\ r.err.key = doc[i].key)

C6_Witness ==
    /\ result # None
    /\ ~result[1].ok
    /\ result[1].err.kind = "not a valid Boolean value"
    /\ \E i \in 1..Len(buf[1]) :
          /\ buf[1][i].key = "Background"
          /\ buf[1][i].value = <<"T", "r", "u", "e">>

\* C7: the written text always has the Name and Type keys, and has the key of
\* any other field exactly when that field is not in its default state.
C7_DefaultOmission ==
    (buf # None /\ config # None)
        => LET items == buf[1]
               b == config[1].bundle
           IN  /\ HasKey(items, "Name")
               /\ HasKey(items, "Type")
               /\ KeysOf(items) \subseteq KnownKeys
               /\ \A i, j \in 1..Len(items) : items[i].key = items[j].key => i = j
               /\ \A k \in KnownKeys \ {"Name", "Type"} :
                     HasKey(items, k) <=> FieldOf(b, k) # DefaultOf(k)

C7_Witness ==
    /\ buf # None
    /\ config # None
    /\ last.op = "to_write"
    /\ config[1].bundle.background
    /\ ~config[1].bundle.prefer_xbox_mode
    /\ config[1].bundle.launcher_tags # <<>>
    /\ config[1].bundle.version = None
    /\ HasKey(buf[1], "Background")
    /\ ~HasKey(buf[1], "PreferXBoxMode")

\* C8 (as stated): a section without Name or Type fails with the missing-field
\* error; a section with a key outside the twelve known keys fails with the
\* unknown-field error; a section with Name, a valid Type and only known keys
\* with valid values succeeds, each absent optional key at its default.
C8_DecodeEnforcement ==
    result # None
        => LET doc == buf[1]
               r == result[1]
           IN  /\ (~HasKey(doc, "Name") \/ ~HasKey(doc, "Type"))
                    => (~r.ok /\ r.err.kind = "missing field")
               /\ ~(KeysOf(doc) \subseteq KnownKeys)
                    => (~r.ok /\ r.err.kind = "unknown field")
               /\ (/\ HasKey(doc, "Name")
                   /\ HasKey(doc, "Type")
                   /\ KeysOf(doc) \subseteq KnownKeys
                   /\ \A i \in 1..Len(doc) : ValidValue(doc[i]))
                    => (/\ r.ok
                        /\ \A k \in KnownKeys \ {"Name", "Type"} :
                              ~HasKey(doc, k) => FieldOf(r.value.bundle, k) = DefaultOf(k))

\* C8 (amended): a section without Name or Type, or with a key outside the
\* twelve known keys, always fails.  The items are taken in file order and the
\* first fault decides the error: the unknown-field error when every item
\* before the unknown key is a known key, not repeated, with a valid value; the
\* missing-field error when every item of the section is.  A section with Name,
\* a valid Type and only known keys, none repeated, with valid values succeeds,
\* each absent optional key at its default, and no other section succeeds.
C8_DecodeFirstFault ==
    result # None
        => LET doc == buf[1]
               r == result[1]
           IN  /\ (~HasKey(doc, "Name") \/ ~HasKey(doc, "Type")) => ~r.ok
               /\ ~(KeysOf(doc) \subseteq KnownKeys) => ~r.ok
               /\ (AllClean(doc) /\ ~HasKey(doc, "Name"))
                    => (r.err.kind = "missing field" /\ r.err.key = "Name")
               /\ (AllClean(doc) /\ HasKey(doc, "Name") /\ ~HasKey(doc, "Type"))
                    => (r.err.kind = "missing field" /\ r.err.key = "Type")
               /\ \A i \in 1..Len(doc) :
                     (doc[i].key \notin KnownKeys /\ PrefixClean(doc, i))
                        => (r.err.kind = "unknown field" /\ r.err.key = doc[i].key)
               /\ r.ok <=> (AllClean(doc) /\ HasKey(doc, "Name") /\ HasKey(doc, "Type"))
               /\ r.ok => \A k \in KnownKeys \ {"Name", "Type"} :
                             ~HasKey(doc, k) => FieldOf(r.value.bundle, k) = DefaultOf(k)

C8_Witness ==
    /\ result # None
    /\ ~result[1].ok
    /\ result[1].err.kind = "unknown field"
    /\ ~HasKey(buf[1], "Name")
    /\ Len(buf[1]) = MaxItems

\* C9: a record written with to_archive into an empty container and read back
\* with from_archive is read back equal; reading a container without the
\* bundle.ini entry fails with the entry-not-found error.
C9_ArchiveRoundTrip ==
    (last.op = "from_archive" /\ config # None)
        => IF HasEntry(archive, ManifestEntry)
              THEN result = Some(Ok(config[1]))
              ELSE ~result[1].ok /\ result[1].err.kind = "FileNotFound"

\* C10: in a store builder, and in the record it builds, launcher_tags is
\* non-empty only if launcher_exec is set.
C10_TagsNeedExec ==
    /\ builder.kind = "store"
        => (builder.launcher_tags # <<>> => builder.launcher_exec # None)
    /\ (config # None /\ builder.kind = "built" /\ builder.by = "store")
        => (config[1].bundle.launcher_tags # <<>> => config[1].bundle.launcher_exec # None)

C10_Witness ==
    /\ config # None
    /\ builder.kind = "built"
    /\ builder.by = "store"
    /\ Len(config[1].bundle.launcher_tags) = MaxTags
    /\ config[1].bundle.launcher_exec # None

====
